---------------------------- MODULE Spec2Model ----------------------------
(***************************************************************************)
(* A model of cat-prep (gjk-cat/cat-prep), an mdbook preprocessor:         *)
(*   - extract_header   (src/src/cat_context.rs), the header/body splitter *)
(*   - execute_renders  (src/src/render.rs), the render applier            *)
(*   - CatContext::with_book, create_renders and Cat::run                  *)
(*                                                                         *)
(* A text (String) is a sequence of characters; a character is a one-      *)
(* element TLA+ string, or an opaque chunk of text that holds no line      *)
(* break.  A path (PathBuf) is the sequence of its components.             *)
(***************************************************************************)
EXTENDS Naturals, Sequences, FiniteSets, TLC

VARIABLES
    pc,        \* position of the modelled run
    src,       \* extract_header: the argument
    hres,      \* extract_header: the returned Result
    cres,      \* read_teacher_cards: the returned Result
    book0,     \* the chapters of the book as handed in, in for_each_mut order
    book,      \* the chapters of the book, mutated in place
    renders,   \* execute_renders: the argument pending_renders as handed in
    pending,   \* execute_renders: pending_renders as the walk left it
    rres,      \* execute_renders: the returned Result
    folder,    \* the teachers folder, as read_teacher_cards finds it
    teacher_cards, teachers, errors,   \* with_book: its locals of these names
    subject_cards, subjects,
    article_cards, articles,
    queries,   \* the version-control commands issued so far, in order
    wres,      \* with_book: the returned Result (its error, when it failed)
    ctx        \* with_book: the returned CatContext, None until it returned Ok

\* the state of extract_header and read_teacher_cards, and of execute_renders
hvars == <<src, hres, cres>>
rvars == <<renders, pending, rres>>
\* the locals of with_book
wlocals == <<teacher_cards, teachers, errors, subject_cards, subjects,
             article_cards, articles>>
wvars == <<folder, teacher_cards, teachers, errors, subject_cards, subjects,
           article_cards, articles, queries, wres, ctx>>

vars == <<pc, src, hres, cres, book0, book, renders, pending, rres,
          folder, teacher_cards, teachers, errors, subject_cards, subjects,
          article_cards, articles, queries, wres, ctx>>

-----------------------------------------------------------------------------
(* Bounds of the model *)

\* longest text handed to extract_header
MaxLen == 7
\* longest fragment list handed to execute_renders
MaxRenders == 2
\* most chapters of a book handed to execute_renders
MaxChapters == 3
\* most chapters of a book handed to Cat::run
MaxDocs == 3
\* the most chapters nested below one chapter of a book handed to Cat::run
MaxNested == 1
\* the most entries below the teachers folder
MaxEntries == 3

-----------------------------------------------------------------------------
(* Generic helpers *)

NL == "\n"

RECURSIVE SeqsUpTo(_, _)
\* all sequences over S of length at most n
SeqsUpTo(S, n) ==
    IF n = 0 THEN {<<>>}
    ELSE LET shorter == SeqsUpTo(S, n - 1)
         IN  shorter \cup {Append(s, x) : s \in {t \in shorter : Len(t) = n - 1}, x \in S}

\* Iterator::take_while(|x| *x != d) on a sequence
RECURSIVE TakeWhileNot(_, _)
TakeWhileNot(s, d) ==
    IF s = <<>> \/ Head(s) = d THEN <<>>
    ELSE <<Head(s)>> \o TakeWhileNot(Tail(s), d)

\* Iterator::skip_while(|x| *x != d) on a sequence
RECURSIVE SkipWhileNot(_, _)
SkipWhileNot(s, d) ==
    IF s = <<>> \/ Head(s) = d THEN s
    ELSE SkipWhileNot(Tail(s), d)

\* Iterator::skip(1): an exhausted iterator stays exhausted
Skip1(s) == IF s = <<>> THEN <<>> ELSE Tail(s)

\* [String]::join("\n")
RECURSIVE JoinNL(_)
JoinNL(ls) ==
    IF ls = <<>> THEN <<>>
    ELSE IF Len(ls) = 1 THEN Head(ls)
    ELSE Head(ls) \o <<NL>> \o JoinNL(Tail(ls))

\* str::lines(): the text split at line feeds; a final line feed ends the last
\* line and starts no further, empty one (the texts modelled hold no "\r")
RECURSIVE Lines(_)
Lines(t) ==
    IF t = <<>> THEN <<>>
    ELSE LET first == TakeWhileNot(t, NL)
             rest  == SkipWhileNot(t, NL)
         IN  IF rest = <<>> THEN <<first>>
             ELSE <<first>> \o Lines(Tail(rest))

-----------------------------------------------------------------------------
(* extract_header, src/src/cat_context.rs:13-34 *)

\* the line "+++"
Delimiter == <<"+", "+", "+">>

extract_header_mut_keep_delim(s) ==
    LET header == JoinNL(TakeWhileNot(Lines(s), Delimiter))
        body   == JoinNL(SkipWhileNot(Lines(s), Delimiter))
    IN  IF header = s
        THEN [ok |-> FALSE, err |-> "InvalidOrMissingHeader", header |-> <<>>, body |-> <<>>]
        ELSE [ok |-> TRUE, err |-> "", header |-> header, body |-> body]

extract_header(s) ==
    LET header == JoinNL(TakeWhileNot(Lines(s), Delimiter))
        body   == JoinNL(Skip1(SkipWhileNot(Lines(s), Delimiter)))
    IN  IF header = s
        THEN [ok |-> FALSE, err |-> "InvalidOrMissingHeader", header |-> <<>>, body |-> <<>>]
        ELSE [ok |-> TRUE, err |-> "", header |-> header, body |-> body]

NoResult == [ok |-> FALSE, err |-> "none", header |-> <<>>, body |-> <<>>]

\* the characters of the texts handed to extract_header
Alphabet == {"a", "+", NL}

-----------------------------------------------------------------------------
(* RenderType, RenderSite and execute_renders, src/src/render.rs *)

\* RenderType: kind names the variant; a and b are its texts (b only for Both)
Prepend(s)    == [kind |-> "Prepend", a |-> s, b |-> <<>>]
AppendR(s)    == [kind |-> "Append", a |-> s, b |-> <<>>]
Both(pre, po) == [kind |-> "Both", a |-> pre, b |-> po]
EntirePage(s) == [kind |-> "EntirePage", a |-> s, b |-> <<>>]

\* RenderSite::new
RenderSite(site, render) == [site |-> site, render |-> render]

\* Chapter: the fields the preprocessor reads, writes and compares.  A book
\* is the sequence of its chapters in the order for_each_mut visits them, the
\* chapters nested below a chapter right before it; sub_items is the number
\* of chapters nested below, at any depth.  Chapter::new has none.
Chapter(path, content) == [path |-> path, content |-> content, sub_items |-> 0]

ApplyRender_mut_both_drops_body(r, content) ==
    IF r.kind = "Prepend" THEN content \o <<NL>> \o r.a
    ELSE IF r.kind = "Both" THEN r.a \o <<NL>> \o r.b
    ELSE IF r.kind = "Append" THEN content \o <<NL>> \o r.a
    ELSE r.a

\* the match of execute_renders: the new content of a chapter
ApplyRender(r, content) ==
    IF r.kind = "Prepend" THEN content \o <<NL>> \o r.a
    ELSE IF r.kind = "Both" THEN r.a \o <<NL>> \o content \o <<NL>> \o r.b
    ELSE IF r.kind = "Append" THEN content \o <<NL>> \o r.a
    ELSE r.a

RECURSIVE Reverse(_)
Reverse(s) == IF s = <<>> THEN <<>> ELSE Reverse(Tail(s)) \o <<Head(s)>>

MatchingRenders_mut_reversed(p, path) ==
    Reverse(SelectSeq(p, LAMBDA x : x.site = path))

\* pending_renders.iter().filter(|x| x.site == path)
MatchingRenders(p, path) == SelectSeq(p, LAMBDA x : x.site = path)

\* pending_renders.retain(|x| x.site != c.path)
Retain(p, path) == SelectSeq(p, LAMBDA x : x.site # path)

\* .for_each(|x| match &x.render {...}): the fragments applied one after another
RECURSIVE ApplyAll(_, _)
ApplyAll(rs, content) ==
    IF rs = <<>> THEN content
    ELSE ApplyAll(Tail(rs), ApplyRender(Head(rs).render, content))

NoRender == [kind |-> "none", a |-> <<>>, b |-> <<>>]
RNone == [status |-> "none", site |-> <<>>, render |-> NoRender]
ROk   == [status |-> "Ok", site |-> <<>>, render |-> NoRender]

OrphanRender_mut_last(p) ==
    [status |-> "OrphanRender", site |-> p[Len(p)].site, render |-> p[Len(p)].render]

\* CatError::OrphanRender of the first fragment left over
OrphanRender(p) ==
    [status |-> "OrphanRender", site |-> p[1].site, render |-> p[1].render]

\* the closure handed to book.for_each_mut (lines 399-415) on chapter i:
\* st holds the book and the pending renders
ApplyToChapter(st, i) ==
    LET c == st.book[i]
    IN  [book |-> [st.book EXCEPT ![i].content =
                      ApplyAll(MatchingRenders(st.pending, c.path), c.content)],
         pending |-> Retain(st.pending, c.path)]

\* book.for_each_mut: the closure on chapter i and the ones after it
RECURSIVE ForEachMut(_, _)
ForEachMut(st, i) ==
    IF i > Len(st.book) THEN st ELSE ForEachMut(ApplyToChapter(st, i), i + 1)

\* execute_renders, lines 395-428: the walk, then the check for renders left
ExecuteRenders ==
    /\ pc = "exec"
    /\ LET st == ForEachMut([book |-> book, pending |-> renders], 1)
       IN  /\ book' = st.book
           /\ pending' = st.pending
           /\ rres' = IF st.pending # <<>> THEN OrphanRender(st.pending) ELSE ROk
    /\ pc' = "done"
    /\ UNCHANGED <<hvars, book0, renders, wvars>>

-----------------------------------------------------------------------------
(* Option<T>: None, or Some(v) *)

None == <<>>
Some(v) == <<v>>

\* with_book has not been called: its state is empty
WNone == [status |-> "none", err |-> None]
WIdle ==
    /\ folder = <<>> /\ teacher_cards = <<>> /\ teachers = <<>> /\ errors = <<>>
    /\ subject_cards = <<>> /\ subjects = <<>>
    /\ article_cards = <<>> /\ articles = <<>>
    /\ queries = <<>> /\ wres = WNone /\ ctx = None

-----------------------------------------------------------------------------
(* Strings, paths and stable sorting *)

\* every string a card, a title or an identity of the model can be, in the
\* order of String::cmp (byte-wise lexicographic)
StringOrder == <<"Ann", "Bob", "K", "L", "M", "Neznamy", "V", "X",
                 "ann@x", "bob@x", "zed">>

Rank(s) == CHOOSE i \in 1..Len(StringOrder) : StringOrder[i] = s

\* a.cmp(b) != Ordering::Greater
StrLeq(a, b) == Rank(a) <= Rank(b)

\* Vec::sort_by(|a, b| key(a).cmp(key(b))), a stable sort: element i goes
\* behind the elements of a smaller key and the earlier ones of its own key
\* (keys[i] is the key of s[i])
SortedPos(keys, i) ==
    Cardinality({j \in 1..Len(keys) : Rank(keys[j]) < Rank(keys[i])})
    + Cardinality({j \in 1..i : keys[j] = keys[i]})

SortByKey(s, keys) ==
    [k \in 1..Len(s) |-> s[CHOOSE i \in 1..Len(s) : SortedPos(keys, i) = k]]

\* Path::starts_with: q begins with the components of p
StartsWith(q, p) == Len(p) <= Len(q) /\ SubSeq(q, 1, Len(p)) = p

\* Path::parent of a path with at least one component
Parent(p) == SubSeq(p, 1, Len(p) - 1)

\* Path::file_name of a path with at least one component
FileName(p) == p[Len(p)]

\* the file names of the model that end with the characters "subject.md"
MarkerSuffixed == {"subject.md", "mysubject.md"}

\* x.path.to_str().unwrap().ends_with("subject.md")
EndsWithSubjectMd(p) == p # <<>> /\ FileName(p) \in MarkerSuffixed

\* Iterator::find: the index of the first element that satisfies the
\* predicate, 0 when none does; hit[i] tells whether element i satisfies it
FindFirst(hit) ==
    IF \E i \in 1..Len(hit) : hit[i]
    THEN CHOOSE i \in 1..Len(hit) : hit[i] /\ \A j \in 1..(i - 1) : ~hit[j]
    ELSE 0

-----------------------------------------------------------------------------
(* The cards and their TOML, src/src/models.rs *)

TeacherCard(jmeno, email, username) ==
    [jmeno |-> jmeno, email |-> email, username |-> username]

\* the front matters of the model that parse as a SubjectCard, and the card
\* toml::de::from_str gives for each (_resolved_path is not in the text)
SubjectToml ==
    ("nazev='M' zodpovedna_osoba='Bob' bio=''" :>
        [nazev |-> "M", zodpovedna_osoba |-> "Bob", _resolved_path |-> None]) @@
    ("nazev='K' zodpovedna_osoba='zed' bio=''" :>
        [nazev |-> "K", zodpovedna_osoba |-> "zed", _resolved_path |-> None]) @@
    ("nazev='L' zodpovedna_osoba='ann@x' bio=''" :>
        [nazev |-> "L", zodpovedna_osoba |-> "ann@x", _resolved_path |-> None])

\* the front matters of the model that parse as an ArticleCard
ArticleToml ==
    ("nazev='X' tagy=['intro','intro']" :>
        [nazev |-> "X", tagy |-> <<"intro", "intro">>, _resolved_path |-> None]) @@
    ("nazev='V' tagy=['git','intro']" :>
        [nazev |-> "V", tagy |-> <<"git", "intro">>, _resolved_path |-> None])

\* toml::de::from_str::<SubjectCard>: a front matter is one line of the tables
\* above, or text that does not parse
ParseSubjectCard(header) ==
    IF Len(header) = 1 /\ header[1] \in DOMAIN SubjectToml
    THEN [ok |-> TRUE, card |-> SubjectToml[header[1]]]
    ELSE [ok |-> FALSE, card |-> None]

\* toml::de::from_str::<ArticleCard>
ParseArticleCard(header) ==
    IF Len(header) = 1 /\ header[1] \in DOMAIN ArticleToml
    THEN [ok |-> TRUE, card |-> ArticleToml[header[1]]]
    ELSE [ok |-> FALSE, card |-> None]

\* CatError values; at tells the failures of one kind apart (the path of the
\* document, or the command whose stderr the error carries)
CatError(kind, at) == [kind |-> kind, at |-> at]

\* the sort keys of lines 141, 217 and 269, and 235
JmenoOf(s) == [i \in 1..Len(s) |-> s[i].jmeno]
NazevOf(s) == [i \in 1..Len(s) |-> s[i].nazev]
CardNazevOf(s) == [i \in 1..Len(s) |-> s[i].card.nazev]

-----------------------------------------------------------------------------
(* read_teacher_cards, src/src/cat_context.rs:40-76.  The teachers folder  *)
(* is missing, a file, or a directory; a directory is the sequence of the  *)
(* entries below it in the order WalkDir yields them, a directory before   *)
(* what it contains.  An entry has its path below the folder, whether it   *)
(* is a regular file, and the text of the file.                            *)

DirEntry(path, is_file, text) == [path |-> path, is_file |-> is_file, text |-> text]

\* the file names of the model that end with the characters ".toml"
TomlSuffixed == {"ann.toml", "bob.toml", "bad.toml", "old.toml"}

\* x.file_name().to_string_lossy().ends_with(".toml")
EndsWithToml(e) == FileName(e.path) \in TomlSuffixed

\* the texts of the model that parse as a TeacherCard, and the card
\* toml::de::from_str gives for each
TeacherToml ==
    ("jmeno='Ann' email='ann@x' username='Bob' bio=''" :>
        TeacherCard("Ann", "ann@x", "Bob")) @@
    ("jmeno='Bob' email='bob@x' username='Neznamy' bio=''" :>
        TeacherCard("Bob", "bob@x", "Neznamy"))

\* read_teacher_cards has not been called; its Ok and Err results
CNone == [status |-> "none", cards |-> <<>>, err |-> None]
COk(cards) == [status |-> "Ok", cards |-> cards, err |-> None]
CErr(e) == [status |-> "Err", cards |-> <<>>, err |-> Some(e)]

\* lines 47-58: the entries WalkDir yields, at any depth, that are regular
\* files whose name ends with ".toml"
TomlFiles(f) == SelectSeq(f.entries, LAMBDA e : EndsWithToml(e) /\ e.is_file)

\* lines 41-45, then 59-75: the error of the first file that does not parse,
\* or the cards in the order the files were yielded
read_teacher_cards(f) ==
    IF f.kind = "missing" THEN CErr(CatError("NoTeacherFolder", None))
    ELSE IF f.kind = "file" THEN CErr(CatError("TeachersArentFolder", None))
    ELSE LET files == TomlFiles(f)
             bad == FindFirst([n \in 1..Len(files) |-> files[n].text \notin DOMAIN TeacherToml])
         IN  IF bad # 0
             THEN CErr(CatError("InvalidTeacherCard", Some(FileName(files[bad].path))))
             ELSE COk([n \in 1..Len(files) |-> TeacherToml[files[n].text]])

-----------------------------------------------------------------------------
(* CatContext::with_book, src/src/cat_context.rs:133-426.  The book is the  *)
(* sequence of its chapters in the order for_each_mut visits them; the     *)
(* version-control commands answer as the action that issues them chooses. *)

WErr(e) == [status |-> "Err", err |-> Some(e)]

\* errors[0].clone(), lines 173, 215, 274 and 343
FirstError(errs) == errs[1]
WOk == [status |-> "Ok", err |-> None]

Query(cmd, arg) == [cmd |-> cmd, arg |-> arg]

\* the paths of the model the version-control history can name as created
GitPaths == {<<"s", "a.md">>, <<"s", "mysubject.md">>}

PathsOf(b) == {b[i].path : i \in 1..Len(b)}

\* what `git whatchanged --author=... --diff-filter=A ...` can answer for one
\* teacher: a failure, or the created files that still exist
Q1Answers ==
    {[status |-> 1, files |-> {}]} \cup
    {[status |-> 0, files |-> F] : F \in SUBSET (GitPaths \cap PathsOf(book0))}

\* the author name `git log -s -n1 --pretty='format:%an'` answers for a path:
\* the history of the model has each path last committed by one author
LastAuthor(path) ==
    IF path = <<"s", "a.md">> THEN "Bob"
    ELSE IF path = <<"s", "mysubject.md">> THEN "zed"
    ELSE "ann@x"

\* which of the two `git log` commands fails for a path when one does: the
\* history of the model has the first fail for some paths, the second for others
FailingQuery(path) == IF path = <<"s", "mysubject.md">> THEN "Q3" ELSE "Q2"

\* what the two `git log` commands can answer for the article of a path: both
\* succeed, or one of them fails
Q23Answers == {[fail |-> FALSE], [fail |-> TRUE]}

\* lines 146-168: one Teacher per card whose command succeeded
RECURSIVE TeacherWalk(_, _, _, _)
TeacherWalk(cards, ans, i, acc) ==
    IF i > Len(cards) THEN acc
    ELSE IF ans[i].status # 0
    THEN TeacherWalk(cards, ans, i + 1,
             [acc EXCEPT !.errors = Append(@, CatError("CommandFailed",
                                       Some(Query("whatchanged", <<cards[i].jmeno>>))))])
    ELSE TeacherWalk(cards, ans, i + 1,
             [acc EXCEPT !.teachers = Append(@,
                 [card |-> cards[i], subjects |-> <<>>,
                  files_created |-> ans[i].files, articles |-> <<>>])])

\* lines 134-174: the repository check, the cards sorted by name, the query of
\* each teacher's created files, and the return on a failed query
WithBookTeachers ==
    /\ pc = "teachers"
    /\ \/ /\ wres' = WErr(CatError("NotARepo", None))
          /\ pc' = "failed"
          /\ queries' = Append(queries, Query("rev-parse", <<>>))
          /\ UNCHANGED wlocals
       \/ /\ read_teacher_cards(folder).status = "Err"
          /\ wres' = WErr(read_teacher_cards(folder).err[1])
          /\ pc' = "failed"
          /\ queries' = Append(queries, Query("rev-parse", <<>>))
          /\ UNCHANGED wlocals
       \/ LET read == read_teacher_cards(folder).cards
              cards == SortByKey(read, JmenoOf(read))
          IN  /\ read_teacher_cards(folder).status = "Ok"
              /\ \E ans \in [1..Len(cards) -> Q1Answers] :
                LET acc == TeacherWalk(cards, ans, 1, [errors |-> <<>>, teachers |-> <<>>])
                IN  /\ teacher_cards' = cards
                    /\ teachers' = acc.teachers
                    /\ errors' = acc.errors
                    /\ queries' = Append(queries, Query("rev-parse", <<>>)) \o
                           [i \in 1..Len(cards) |-> Query("whatchanged", <<cards[i].jmeno>>)]
                    /\ IF acc.errors # <<>>
                       THEN wres' = WErr(FirstError(acc.errors)) /\ pc' = "failed"
                       ELSE wres' = wres /\ pc' = "subjects"
                    /\ UNCHANGED <<subject_cards, subjects, article_cards, articles>>
    /\ UNCHANGED <<hvars, rvars, book0, book, folder, ctx>>

\* what Chapter::clone copies and Chapter::eq compares: chapter i of the book
\* b together with the chapters nested below it
Clone(b, i) == [item |-> b[i], sub_items |-> SubSeq(b, i - b[i].sub_items, i - 1)]

\* lines 176-181: the chapters, at any depth, whose path ends with
\* "subject.md", cloned (the order of the clones plays no part)
SubjectItems(b) ==
    LET clones == [i \in 1..Len(b) |-> Clone(b, i)]
    IN  SelectSeq(clones, LAMBDA c : EndsWithSubjectMd(c.item.path))

\* lines 241-245: a chapter under some subject's path_root whose file name is
\* not "subject.md"
IsArticleChapter(c, ss) ==
    \E k \in 1..Len(ss) :
        StartsWith(c.path, ss[k].path_root) /\ FileName(c.path) # "subject.md"

\* the closures of lines 185-210 (kind "subject", sel the subject items) and
\* 239-268 (kind "article", sel the subjects) on chapter i and the ones after
\* it: a selected chapter has its header split off and parsed.  Line 187,
\* subject_items.contains(c), compares the chapter as the walk has left it,
\* the chapters nested below it included, with the clones taken before the
\* walk.
RECURSIVE HeaderWalk(_, _, _, _)
HeaderWalk(acc, i, kind, sel) ==
    IF i > Len(acc.book) THEN acc
    ELSE LET c == acc.book[i]
             selected == IF kind = "subject"
                         THEN \E k \in 1..Len(sel) : sel[k] = Clone(acc.book, i)
                         ELSE IsArticleChapter(c, sel)
         IN  IF ~selected THEN HeaderWalk(acc, i + 1, kind, sel)
             ELSE LET hb == extract_header(c.content)
                  IN  IF ~hb.ok
                      THEN HeaderWalk([acc EXCEPT !.errors = Append(@,
                                          CatError("InvalidOrMissingHeader", None))],
                                      i + 1, kind, sel)
                      ELSE LET stripped == [acc EXCEPT !.book[i].content = hb.body]
                               parsed   == IF kind = "subject"
                                           THEN ParseSubjectCard(hb.header)
                                           ELSE ParseArticleCard(hb.header)
                           IN  IF ~parsed.ok
                               THEN HeaderWalk([stripped EXCEPT !.errors = Append(@,
                                                   CatError("InvalidHeaderFormat", Some(hb.header)))],
                                               i + 1, kind, sel)
                               ELSE HeaderWalk([stripped EXCEPT !.cards = Append(@,
                                                   [parsed.card EXCEPT !._resolved_path = Some(c.path)])],
                                               i + 1, kind, sel)

\* lines 219-235
SubjectOf(card) ==
    [path |-> card._resolved_path[1],
     path_root |-> Parent(card._resolved_path[1]),
     card |-> card,
     articles |-> <<>>,
     resolved_author |-> None]

\* lines 176-235: the subject chapters stripped and parsed, the return on a
\* failure, the cards sorted by title and the Subjects built from them
WithBookSubjects ==
    /\ pc = "subjects"
    /\ LET items == SubjectItems(book)
           acc == HeaderWalk([book |-> book, errors |-> errors, cards |-> <<>>],
                             1, "subject", items)
           sorted == SortByKey(acc.cards, NazevOf(acc.cards))
       IN  /\ book' = acc.book
           /\ errors' = acc.errors
           /\ IF acc.errors # <<>>
              THEN /\ wres' = WErr(FirstError(acc.errors)) /\ pc' = "failed"
                   /\ subject_cards' = acc.cards
                   /\ subjects' = subjects
              ELSE /\ wres' = wres /\ pc' = "article_headers"
                   /\ subject_cards' = sorted
                   /\ subjects' =
                          LET built == [i \in 1..Len(sorted) |-> SubjectOf(sorted[i])]
                          IN  SortByKey(built, CardNazevOf(built))
    /\ UNCHANGED <<hvars, rvars, book0, folder, teacher_cards, teachers,
                   article_cards, articles, queries, ctx>>

\* lines 237-275: the article chapters stripped and parsed, the cards sorted by
\* title, and the return on a failure
WithBookArticleHeaders ==
    /\ pc = "article_headers"
    /\ LET acc == HeaderWalk([book |-> book, errors |-> errors, cards |-> <<>>],
                             1, "article", subjects)
       IN  /\ book' = acc.book
           /\ errors' = acc.errors
           /\ article_cards' = SortByKey(acc.cards, NazevOf(acc.cards))
           /\ IF acc.errors # <<>>
              THEN wres' = WErr(FirstError(acc.errors)) /\ pc' = "failed"
              ELSE wres' = wres /\ pc' = "article_queries"
    /\ UNCHANGED <<hvars, rvars, book0, folder, teacher_cards, teachers,
                   subject_cards, subjects, articles, queries, ctx>>

AuthorOf_mut_last_creator(ts, path) ==
    LET M == {n \in 1..Len(ts) : path \in ts[n].files_created}
    IN  IF M # {} THEN ts[CHOOSE n \in M : \A m \in M : m <= n].card.jmeno
        ELSE "Neznamy"

\* lines 316-322: the name of the first teacher who created the path, or the
\* placeholder of line 322 (written here without its diacritics)
AuthorOf(ts, path) ==
    LET f == FindFirst([n \in 1..Len(ts) |-> path \in ts[n].files_created])
    IN  IF f # 0 THEN ts[f].card.jmeno ELSE "Neznamy"

\* lines 314-329
ArticleOf(card, ts) ==
    [card |-> card,
     author |-> AuthorOf(ts, card._resolved_path[1]),
     modified_by |-> LastAuthor(card._resolved_path[1]),
     last_modified |-> "2020-01-01",
     path |-> card._resolved_path[1],
     modified_resolved |-> None,
     resolved_author |-> None,
     subject_card |-> None]

PushToSubject_mut_every_prefix(ss, a) ==
    [n \in 1..Len(ss) |->
        IF StartsWith(a.path, ss[n].path_root)
        THEN [ss[n] EXCEPT !.articles = Append(@, a)] ELSE ss[n]]

\* lines 331-334: a copy of the article pushed to the first subject whose
\* path_root its path starts with
PushToSubject(ss, a) ==
    LET f == FindFirst([n \in 1..Len(ss) |-> StartsWith(a.path, ss[n].path_root)])
    IN  IF f # 0 THEN [ss EXCEPT ![f].articles = Append(@, a)] ELSE ss

\* lines 277-338: the closure of filter_map on card i and the ones after it
RECURSIVE ArticleWalk(_, _, _, _, _)
ArticleWalk(cards, ts, ans, i, acc) ==
    IF i > Len(cards) THEN acc
    ELSE LET path == cards[i]._resolved_path[1]
             q2 == Query("log %ci", path)
             q3 == Query("log %an", path)
         IN  IF ans[i].fail /\ FailingQuery(path) = "Q2"
             THEN ArticleWalk(cards, ts, ans, i + 1,
                      [acc EXCEPT !.errors = Append(@, CatError("CommandFailed", Some(q2))),
                                  !.queries = Append(@, q2)])
             ELSE IF ans[i].fail /\ FailingQuery(path) = "Q3"
             THEN ArticleWalk(cards, ts, ans, i + 1,
                      [acc EXCEPT !.errors = Append(@, CatError("CommandFailed", Some(q3))),
                                  !.queries = @ \o <<q2, q3>>])
             ELSE LET a == ArticleOf(cards[i], ts)
                  IN  ArticleWalk(cards, ts, ans, i + 1,
                          [acc EXCEPT !.subjects = PushToSubject(@, a),
                                      !.articles = Append(@, a),
                                      !.queries = @ \o <<q2, q3>>])

\* lines 277-344: the two queries of each article, the Articles built and
\* pushed to their subjects, and the return on a failed query
WithBookArticleQueries ==
    /\ pc = "article_queries"
    /\ \E ans \in [1..Len(article_cards) -> Q23Answers] :
          LET acc == ArticleWalk(article_cards, teachers, ans, 1,
                         [errors |-> errors, subjects |-> subjects,
                          articles |-> <<>>, queries |-> queries])
          IN  /\ errors' = acc.errors
              /\ subjects' = acc.subjects
              /\ articles' = acc.articles
              /\ queries' = acc.queries
              /\ IF acc.errors # <<>>
                 THEN wres' = WErr(FirstError(acc.errors)) /\ pc' = "failed"
                 ELSE wres' = wres /\ pc' = "resolve"
    /\ UNCHANGED <<hvars, rvars, book0, book, folder, teacher_cards, teachers,
                   subject_cards, article_cards, ctx>>

LinkByArticles_mut_teacher_order(ts, x, k) ==
    LET f == FindFirst([n \in 1..Len(ts) |->
                           \E j \in k..Len(x.articles) :
                               x.articles[j].path \in ts[n].files_created])
    IN  IF f # 0 THEN [ts EXCEPT ![f].subjects = Append(@, x)] ELSE ts

\* lines 356-365: the subject pushed to the first teacher who created one of
\* its articles, the articles tried in order
RECURSIVE LinkByArticles(_, _, _)
LinkByArticles(ts, x, k) ==
    IF k > Len(x.articles) THEN ts
    ELSE LET f == FindFirst([n \in 1..Len(ts) |->
                                   x.articles[k].path \in ts[n].files_created])
         IN  IF f # 0 THEN [ts EXCEPT ![f].subjects = Append(@, x)]
             ELSE LinkByArticles(ts, x, k + 1)

LinkSubject_mut_all_creators(ts, x) ==
    [i \in 1..Len(ts) |->
        IF x.path \in ts[i].files_created
        THEN [ts[i] EXCEPT !.subjects = Append(@, x)] ELSE ts[i]]

\* lines 347-365: the closure of subjects.iter().for_each on one subject
LinkSubject(ts, x) ==
    LET f == FindFirst([n \in 1..Len(ts) |-> x.path \in ts[n].files_created])
    IN  IF f # 0 THEN [ts EXCEPT ![f].subjects = Append(@, x)]
        ELSE LinkByArticles(ts, x, 1)

\* lines 346-366
RECURSIVE LinkSubjects(_, _, _)
LinkSubjects(ts, ss, i) ==
    IF i > Len(ss) THEN ts ELSE LinkSubjects(LinkSubject(ts, ss[i]), ss, i + 1)

ResolveIdentity_mut_name_only(ts, s) ==
    LET f == FindFirst([n \in 1..Len(ts) |-> s = ts[n].card.jmeno])
    IN  IF f # 0 THEN Some(ts[f].card) ELSE None

\* the first teacher whose username, name or email is the string
\* (lines 369-373, 386-390, 393-397), as an Option of its card
ResolveIdentity(ts, s) ==
    LET f == FindFirst([n \in 1..Len(ts) |->
                           \/ s = ts[n].card.username
                           \/ s = ts[n].card.jmeno
                           \/ s = ts[n].card.email])
    IN  IF f # 0 THEN Some(ts[f].card) ELSE None

\* lines 368-376: resolved_author is left as it is when no teacher matches
ResolveOwners(ss, ts) ==
    [i \in 1..Len(ss) |->
        LET r == ResolveIdentity(ts, ss[i].card.zodpovedna_osoba)
        IN  IF r # None THEN [ss[i] EXCEPT !.resolved_author = r] ELSE ss[i]]

\* lines 379-382: the closure of articles.iter().for_each on one article
LinkArticle(ts, x) ==
    LET f == FindFirst([n \in 1..Len(ts) |-> x.path \in ts[n].files_created])
    IN  IF f # 0 THEN [ts EXCEPT ![f].articles = Append(@, x)] ELSE ts

\* lines 378-383
RECURSIVE LinkArticles(_, _, _)
LinkArticles(ts, as, i) ==
    IF i > Len(as) THEN ts ELSE LinkArticles(LinkArticle(ts, as[i]), as, i + 1)

\* lines 401-404
SubjectCardOf(ss, path) ==
    LET f == FindFirst([n \in 1..Len(ss) |-> StartsWith(path, ss[n].path_root)])
    IN  IF f # 0 THEN Some(ss[f].card) ELSE None

\* lines 385-407
ResolveArticles(as, ts, ss) ==
    [i \in 1..Len(as) |->
        LET m == ResolveIdentity(ts, as[i].modified_by)
            a == ResolveIdentity(ts, as[i].author)
        IN  [as[i] EXCEPT
                !.modified_resolved = IF m # None THEN m ELSE @,
                !.resolved_author = IF a # None THEN a ELSE @,
                !.subject_card = SubjectCardOf(ss, as[i].path)]]

\* acc.entry(y).or_insert(vec![]).push(x.clone())
PushTag(acc, tag, card) ==
    IF tag \in DOMAIN acc THEN [acc EXCEPT ![tag] = Append(@, card)]
    ELSE acc @@ (tag :> <<card>>)

\* lines 418-420: the tags of one card, in their order
RECURSIVE PushTags(_, _, _)
PushTags(acc, card, k) ==
    IF k > Len(card.tagy) THEN acc
    ELSE PushTags(PushTag(acc, card.tagy[k], card), card, k + 1)

\* lines 416-424: the fold over the article cards; the empty map is the
\* function with no argument
RECURSIVE TagIndex(_, _, _)
TagIndex(acc, cards, i) ==
    IF i > Len(cards) THEN acc
    ELSE TagIndex(PushTags(acc, cards[i], 1), cards, i + 1)

EmptyMap == [t \in {} |-> <<>>]

\* lines 346-426: the back-links, the resolved identities, the tag index and
\* the returned CatContext
WithBookResolve ==
    /\ pc = "resolve"
    /\ LET ts1 == LinkSubjects(teachers, subjects, 1)
           ss1 == ResolveOwners(subjects, ts1)
           ts2 == LinkArticles(ts1, articles, 1)
           as1 == ResolveArticles(articles, ts2, ss1)
       IN  /\ teachers' = ts2
           /\ subjects' = ss1
           /\ articles' = as1
           /\ ctx' = Some([teacher_cards |-> teacher_cards,
                           teachers |-> ts2,
                           subject_cards |-> subject_cards,
                           subjects |-> ss1,
                           article_cards |-> article_cards,
                           articles |-> as1,
                           tags |-> TagIndex(EmptyMap, article_cards, 1)])
    /\ wres' = WOk
    /\ pc' = "create_renders"
    /\ UNCHANGED <<hvars, rvars, book0, book, folder, teacher_cards, errors,
                   subject_cards, article_cards, queries>>

-----------------------------------------------------------------------------
(* create_renders, src/src/render.rs:317-389.  What a template renders to  *)
(* is an opaque text named after the template and the entity; the          *)
(* templates are taken to render without error.                            *)

PTeachers == <<"teachers.md">>
PTags == <<"tags.md">>

\* impl Render for TeacherList, Teacher, Subject, Article, TagContext
RenderTeacherList(cards) == RenderSite(PTeachers, AppendR(<<"{teacher list}">>))
RenderTeacher(t) == RenderSite(PTeachers, AppendR(<<"{teacher}", t.card.jmeno>>))
RenderSubject(s) ==
    RenderSite(s.path, Both(<<"{subject pre}", s.card.nazev>>,
                            <<"{subject post}", s.card.nazev>>))
RenderArticle(a) ==
    RenderSite(a.path, Both(<<"{article pre}", a.card.nazev>>,
                            <<"{article post}", a.card.nazev>>))
RenderTags(tags) == RenderSite(PTags, EntirePage(<<"{tags}">>))

\* lines 368-375 and 377-384: the placeholder chapters
TeachersChapter == Chapter(PTeachers, <<"# Vyucujici", NL>>)
TagsChapter == Chapter(PTags, <<>>)

\* lines 368-375
PushTeachersChapter(c, b) ==
    IF c.teacher_cards # <<>> THEN Append(b, TeachersChapter) ELSE b

\* lines 377-384
PushTagsChapter(c, b) ==
    IF DOMAIN c.tags # {} THEN Append(b, TagsChapter) ELSE b

\* lines 321-365: the pending renders, in the order they are pushed
PendingRenders(c) ==
    <<RenderTeacherList(c.teacher_cards)>>
    \o [i \in 1..Len(c.teachers) |-> RenderTeacher(c.teachers[i])]
    \o [i \in 1..Len(c.subjects) |-> RenderSubject(c.subjects[i])]
    \o [i \in 1..Len(c.articles) |-> RenderArticle(c.articles[i])]
    \o <<RenderTags(c.tags)>>

\* Cat::run, src/src/lib.rs:74-82: create_renders on the context with_book
\* returned, its result handed to execute_renders
CreateRenders ==
    /\ pc = "create_renders"
    /\ renders' = PendingRenders(ctx[1])
    /\ book' = PushTagsChapter(ctx[1], PushTeachersChapter(ctx[1], book))
    /\ pc' = "exec"
    /\ UNCHANGED <<hvars, pending, rres, book0, wvars>>

-----------------------------------------------------------------------------
(* Specification of Cat::run, src/src/lib.rs:65-90: with_book, then        *)
(* create_renders, then execute_renders, on every book and teachers folder *)
(* of the menus below.                                                     *)

PSubj == <<"s", "subject.md">>
PRoot == <<"subject.md">>
PArtA == <<"s", "a.md">>
PMy   == <<"s", "mysubject.md">>

\* a document: a one-line front matter, the delimiter line, a body
FrontMatter(h, body) == <<h, NL>> \o Delimiter \o <<NL>> \o body

\* the chapters a book handed to Cat::run is drawn from
DocMenu ==
    { Chapter(PSubj, FrontMatter("nazev='M' zodpovedna_osoba='Bob' bio=''", <<"text">>)),
      Chapter(PSubj, <<"text">>),
      Chapter(PRoot, FrontMatter("nazev='K' zodpovedna_osoba='zed' bio=''", <<"text">>)),
      Chapter(PRoot, FrontMatter("not toml", <<"text">>)),
      Chapter(PArtA, FrontMatter("nazev='X' tagy=['intro','intro']", <<"text">>)),
      Chapter(PArtA, <<"text", NL>>),
      Chapter(PMy, FrontMatter("nazev='L' zodpovedna_osoba='ann@x' bio=''",
                       FrontMatter("nazev='V' tagy=['git','intro']", <<"text">>))) }

\* the chapters nested below a chapter are among those before it, and what is
\* nested below one of them is nested below it too
WellNested(b) ==
    \A i \in 1..Len(b) :
        /\ b[i].sub_items < i
        /\ \A j \in (i - b[i].sub_items)..(i - 1) :
               j - b[j].sub_items >= i - b[i].sub_items

\* the ways to nest the chapters of the sequence b
Nestings(b) ==
    {nb \in {[i \in 1..Len(b) |-> [b[i] EXCEPT !.sub_items = n[i]]] :
                n \in [1..Len(b) -> 0..MaxNested]} : WellNested(nb)}

\* the books of at most MaxDocs chapters, no two of one path, nested in
\* every way
Books ==
    UNION {Nestings(b) : b \in {s \in SeqsUpTo(DocMenu, MaxDocs) :
                                    \A i, j \in 1..Len(s) : s[i].path = s[j].path => i = j}}

TAnn == TeacherCard("Ann", "ann@x", "Bob")
TBob == TeacherCard("Bob", "bob@x", "Neznamy")

\* the teachers folder: missing, a file, or a directory of entries
MissingFolder == [kind |-> "missing", entries |-> <<>>]
FileFolder == [kind |-> "file", entries |-> <<>>]
Dir(entries) == [kind |-> "dir", entries |-> entries]

FAnn == DirEntry(<<"ann.toml">>, TRUE, "jmeno='Ann' email='ann@x' username='Bob' bio=''")
FBob == DirEntry(<<"bob.toml">>, TRUE, "jmeno='Bob' email='bob@x' username='Neznamy' bio=''")

\* the teachers folders Cat::run is run in
TeacherFolders == {Dir(<<>>), Dir(<<FAnn>>), Dir(<<FBob, FAnn>>), MissingFolder}

Init ==
    /\ pc = "teachers"
    /\ folder \in TeacherFolders
    /\ book0 \in Books
    /\ book = book0
    /\ teacher_cards = <<>> /\ teachers = <<>> /\ errors = <<>>
    /\ subject_cards = <<>> /\ subjects = <<>>
    /\ article_cards = <<>> /\ articles = <<>>
    /\ queries = <<>> /\ wres = WNone /\ ctx = None
    /\ renders = <<>> /\ pending = <<>> /\ rres = RNone
    /\ src = <<>> /\ hres = NoResult /\ cres = CNone

Next ==
    \/ WithBookTeachers
    \/ WithBookSubjects
    \/ WithBookArticleHeaders
    \/ WithBookArticleQueries
    \/ WithBookResolve
    \/ CreateRenders
    \/ ExecuteRenders

Spec == Init /\ [][Next]_vars

-----------------------------------------------------------------------------
(* Specification of read_teacher_cards on every teachers folder of at most *)
(* MaxEntries entries of the menu below.                                   *)

EntryMenu ==
    { FAnn, FBob,
      DirEntry(<<"bad.toml">>, TRUE, "not toml"),
      DirEntry(<<"notes.txt">>, TRUE, "jmeno='Bob' email='bob@x' username='Neznamy' bio=''"),
      DirEntry(<<"old.toml">>, FALSE, ""),
      DirEntry(<<"sub">>, FALSE, ""),
      DirEntry(<<"sub", "bob.toml">>, TRUE, "jmeno='Bob' email='bob@x' username='Neznamy' bio=''"),
      DirEntry(<<"sub", "bad.toml">>, TRUE, "not toml") }

\* the order WalkDir can yield entries in: no path twice, and what a
\* directory contains right behind the directory
WalkOrdered(es) ==
    /\ \A i, j \in 1..Len(es) : es[i].path = es[j].path => i = j
    /\ \A i \in 1..Len(es) :
           Len(es[i].path) = 2 =>
               /\ i > 1
               /\ \/ ~es[i - 1].is_file /\ es[i - 1].path = <<es[i].path[1]>>
                  \/ Len(es[i - 1].path) = 2 /\ es[i - 1].path[1] = es[i].path[1]

Folders ==
    {MissingFolder, FileFolder} \cup
    {Dir(es) : es \in {s \in SeqsUpTo(EntryMenu, MaxEntries) : WalkOrdered(s)}}

InitCards ==
    /\ pc = "cards"
    /\ folder \in Folders
    /\ cres = CNone
    /\ src = <<>> /\ hres = NoResult
    /\ book0 = <<>> /\ book = <<>> /\ renders = <<>> /\ pending = <<>>
    /\ rres = RNone
    /\ teacher_cards = <<>> /\ teachers = <<>> /\ errors = <<>>
    /\ subject_cards = <<>> /\ subjects = <<>>
    /\ article_cards = <<>> /\ articles = <<>>
    /\ queries = <<>> /\ wres = WNone /\ ctx = None

ReadTeacherCards ==
    /\ pc = "cards"
    /\ cres' = read_teacher_cards(folder)
    /\ pc' = "cards_done"
    /\ UNCHANGED <<src, hres, book0, book, rvars, wvars>>

NextCards == ReadTeacherCards

SpecCards == InitCards /\ [][NextCards]_vars

-----------------------------------------------------------------------------
(* Specification of extract_header on every text up to MaxLen *)

InitHeader ==
    /\ pc = "hdr"
    /\ src \in SeqsUpTo(Alphabet, MaxLen)
    /\ hres = NoResult /\ cres = CNone
    /\ book0 = <<>> /\ book = <<>> /\ renders = <<>> /\ pending = <<>>
    /\ rres = RNone
    /\ WIdle

ExtractHeader ==
    /\ pc = "hdr"
    /\ hres' = extract_header(src)
    /\ pc' = "hdr_done"
    /\ UNCHANGED <<src, cres, book0, book, renders, pending, rres, wvars>>

NextHeader == ExtractHeader

SpecHeader == InitHeader /\ [][NextHeader]_vars

-----------------------------------------------------------------------------
(* Specification of execute_renders on every fragment list and book *)

PFoo == <<"foo.md">>
PArt == <<"s", "a.md">>

\* the fragments a list handed to execute_renders is drawn from
RenderMenu ==
    {RenderSite(p, r) : p \in {PFoo, PArt},
                        r \in {Prepend(<<"S">>), AppendR(<<"S">>),
                               Both(<<"PRE">>, <<"POST">>), EntirePage(<<"E">>)}}

\* the chapters a book handed to execute_renders is drawn from
ChapterMenu == {Chapter(p, <<"BODY">>) : p \in {PFoo, PArt}}

InitRender ==
    /\ pc = "exec"
    /\ renders \in SeqsUpTo(RenderMenu, MaxRenders)
    /\ pending = <<>>
    /\ book0 \in SeqsUpTo(ChapterMenu, MaxChapters)
    /\ book = book0
    /\ rres = RNone
    /\ src = <<>> /\ hres = NoResult /\ cres = CNone
    /\ WIdle

NextRender == ExecuteRenders

SpecRender == InitRender /\ [][NextRender]_vars

-----------------------------------------------------------------------------
(* Properties of extract_header, checked under SpecHeader *)

\* characters i..i+2 of s are a whole line that reads "+++"
IsDelimLineAt(s, i) ==
    /\ i + 2 <= Len(s)
    /\ s[i] = "+" /\ s[i + 1] = "+" /\ s[i + 2] = "+"
    /\ (i = 1 \/ s[i - 1] = NL)
    /\ (i + 2 = Len(s) \/ s[i + 3] = NL)

HasDelimLine(s) == \E i \in 1..Len(s) : IsDelimLineAt(s, i)

FirstDelimPos(s) ==
    CHOOSE i \in 1..Len(s) :
        IsDelimLineAt(s, i) /\ \A j \in 1..(i - 1) : ~IsDelimLineAt(s, j)

\* s without the one line feed that ends it, if one does
StripFinalNL(s) ==
    IF s # <<>> /\ s[Len(s)] = NL THEN SubSeq(s, 1, Len(s) - 1) ELSE s

\* C4: a text with no line equal to "+++" (also one that ends with a line feed,
\* and the empty text) makes extract_header fail with InvalidOrMissingHeader.
C4_NoDelimiterFails ==
    (pc = "hdr_done" /\ ~HasDelimLine(src))
        => (~hres.ok /\ hres.err = "InvalidOrMissingHeader")

\* C5: on a text with a line equal to "+++" extract_header succeeds; the header
\* is the text before the first such line and the body the text after it (each
\* without the line feed that ends it), so the first delimiter line is in
\* neither and every other line is kept once, in place; later delimiter lines
\* stay in the body.
C5_SplitAtFirstDelimiter ==
    (pc = "hdr_done" /\ HasDelimLine(src)) =>
        LET i    == FirstDelimPos(src)
            pre  == SubSeq(src, 1, i - 1)
            post == SubSeq(src, i + 3, Len(src))
        IN  /\ hres.ok
            /\ hres.header = StripFinalNL(pre)
            /\ hres.body = (IF post = <<>> THEN <<>> ELSE StripFinalNL(Tail(post)))

\* C5 witness: a split whose body holds a later delimiter line
C5_Witness ==
    /\ pc = "hdr_done" /\ hres.ok
    /\ HasDelimLine(src) /\ HasDelimLine(hres.body)

-----------------------------------------------------------------------------
(* Properties of execute_renders, checked under SpecRender *)

\* chapter k is the first chapter of the walk with its path
FirstWithPath(b, k) == \A j \in 1..(k - 1) : b[j].path # b[k].path

\* fragment i of rs has a target that no chapter of b has
IsOrphan(rs, b, i) == \A k \in 1..Len(b) : b[k].path # rs[i].site

\* C1: execute_renders fails with OrphanRender exactly when some fragment's
\* target is the path of no chapter, and the error carries the path and the
\* directive of the first such fragment of the list.
C1_OrphanIffUnmatched ==
    pc = "done" =>
        LET orphans == {i \in 1..Len(renders) : IsOrphan(renders, book0, i)}
        IN  /\ (rres.status = "OrphanRender") = (orphans # {})
            /\ orphans = {} => rres.status = "Ok"
            /\ orphans # {} =>
                   LET f == CHOOSE i \in orphans : \A j \in orphans : i <= j
                   IN  /\ rres.site = renders[f].site
                       /\ rres.render = renders[f].render

\* C1 witness: a failed run whose first orphan differs from a later orphan and
\* is not the first fragment
C1_Witness ==
    /\ pc = "done" /\ rres.status = "OrphanRender"
    /\ Len(renders) >= 2 /\ ~IsOrphan(renders, book0, 1)

\* C2: after a successful execute_renders every chapter that is the first of
\* the walk with its path holds its old content with the fragments targeting
\* that path applied once each, in list order; every other chapter (a later one
\* with the same path, or one no fragment targets) holds its old content.
C2_EachFragmentOnceOnFirstChapter ==
    (pc = "done" /\ rres.status = "Ok") =>
        /\ Len(book) = Len(book0)
        /\ \A k \in 1..Len(book) :
               /\ book[k].path = book0[k].path
               /\ book[k].content =
                      IF FirstWithPath(book0, k)
                      THEN ApplyAll(SelectSeq(renders, LAMBDA x : x.site = book0[k].path),
                                    book0[k].content)
                      ELSE book0[k].content

\* C2 witness: a successful run with two different fragments for one path that
\* two chapters share
C2_Witness ==
    /\ pc = "done" /\ rres.status = "Ok"
    /\ Len(renders) = 2 /\ renders[1].site = renders[2].site
    /\ renders[1].render.kind = "Append" /\ renders[2].render.kind = "Both"
    /\ \E j, k \in 1..Len(book) : j < k /\ book[j].path = book[k].path
                                  /\ book[j].path = renders[1].site
                                  /\ book[j].content # book[k].content

\* the fragments of the list that target chapter k, when k is the chapter they
\* are applied to
FragmentsOf(k) ==
    IF FirstWithPath(book0, k)
    THEN SelectSeq(renders, LAMBDA x : x.site = book0[k].path)
    ELSE <<>>

\* C6: a "prepend text" fragment S puts S before the content (S, line feed, C)
\* and an "append text" fragment puts it after (C, line feed, S).
C6_PrependBeforeAppendAfter ==
    (pc = "done" /\ rres.status = "Ok") =>
        \A k \in 1..Len(book) :
            Len(FragmentsOf(k)) = 1 =>
                LET r == FragmentsOf(k)[1].render
                    c == book0[k].content
                IN  /\ r.kind = "Prepend" => book[k].content = r.a \o <<NL>> \o c
                    /\ r.kind = "Append" => book[k].content = c \o <<NL>> \o r.a

\* C7: a "wrap with pre/post" fragment (PRE, POST) on a content BODY yields
\* PRE, line feed, BODY, line feed, POST.
C7_BothWrapsBody ==
    (pc = "done" /\ rres.status = "Ok") =>
        \A k \in 1..Len(book) :
            (Len(FragmentsOf(k)) = 1 /\ FragmentsOf(k)[1].render.kind = "Both") =>
                LET r == FragmentsOf(k)[1].render
                IN  book[k].content =
                        r.a \o <<NL>> \o book0[k].content \o <<NL>> \o r.b

\* C7 witness: a chapter that received exactly one wrap fragment
C7_Witness ==
    /\ pc = "done" /\ rres.status = "Ok"
    /\ \E k \in 1..Len(book) :
           /\ Len(FragmentsOf(k)) = 1
           /\ FragmentsOf(k)[1].render.kind = "Both"
           /\ book[k].content = <<"PRE", NL, "BODY", NL, "POST">>

-----------------------------------------------------------------------------
(* Properties of Cat::run and with_book, checked under Spec *)

\* the number of entries of the sequence s that satisfy P
Count(s, P(_)) == Cardinality({i \in 1..Len(s) : P(s[i])})

\* the keys are in the order sort_by leaves them in
IsSortedBy(keys) ==
    \A i, j \in 1..Len(keys) : i < j => StrLeq(keys[i], keys[j])

\* C3: with no teacher card (respectively no tag) and no teachers.md
\* (respectively tags.md) in the input book, create_renders followed by
\* execute_renders succeeds and the output book has no such chapter; with a
\* non-empty list the placeholder chapter is appended and receives the
\* rendered fragments.
C3_EmptyListOmitsPage ==
    pc = "done" =>
        LET c == ctx[1]
            last == book[Len(book)]
        IN  /\ (c.teacher_cards = <<>> /\ PTeachers \notin PathsOf(book0)) =>
                   (rres.status = "Ok" /\ PTeachers \notin PathsOf(book))
            /\ (DOMAIN c.tags = {} /\ PTags \notin PathsOf(book0)) =>
                   (rres.status = "Ok" /\ PTags \notin PathsOf(book))
            /\ (c.teacher_cards # <<>> /\ PTeachers \notin PathsOf(book0)) =>
                   \E k \in 1..Len(book) :
                       /\ book[k].path = PTeachers
                       /\ book[k].content =
                              ApplyAll(SelectSeq(renders, LAMBDA x : x.site = PTeachers),
                                       TeachersChapter.content)
            /\ (DOMAIN c.tags # {} /\ PTags \notin PathsOf(book0)) =>
                   /\ last.path = PTags
                   /\ last.content = RenderTags(c.tags).render.a

\* C8: in the returned Context the keys of the tag index are the tags of the
\* article cards, and the list of a tag is the title-sorted article cards that
\* carry the tag, each once.
C8_TagIndexExact ==
    ctx # None =>
        LET c == ctx[1]
        IN  /\ IsSortedBy(NazevOf(c.article_cards))
            /\ DOMAIN c.tags =
                   UNION {{c.article_cards[i].tagy[k] : k \in 1..Len(c.article_cards[i].tagy)} :
                              i \in 1..Len(c.article_cards)}
            /\ \A tag \in DOMAIN c.tags :
                   c.tags[tag] =
                       SelectSeq(c.article_cards,
                                 LAMBDA x : \E k \in 1..Len(x.tagy) : x.tagy[k] = tag)

\* C9: in the returned Context a teacher's articles hold a copy of an article
\* exactly when the teacher's created files hold the article's path, so that
\* every teacher who created it has a copy.
C9_ArticleToEveryCreator ==
    ctx # None =>
        LET c == ctx[1]
        IN  \A i \in 1..Len(c.articles), t \in 1..Len(c.teachers) :
                (\E k \in 1..Len(c.teachers[t].articles) :
                     c.teachers[t].articles[k].path = c.articles[i].path)
                <=> (c.articles[i].path \in c.teachers[t].files_created)

\* the number of copies of the subject of path p that teacher t holds
SubjectCopies(c, t, p) == Count(c.teachers[t].subjects, LAMBDA s : s.path = p)

\* C10: in the returned Context every subject is in the subjects of at most
\* one teacher, at most once; when a teacher's created files hold the
\* subject's own path, it is in the subjects of the first such teacher of the
\* name-sorted teachers and of no other.
C10_SubjectToFirstCreator ==
    ctx # None =>
        LET c == ctx[1]
        IN  /\ IsSortedBy(JmenoOf(c.teacher_cards))
            /\ c.teacher_cards = [t \in 1..Len(c.teachers) |-> c.teachers[t].card]
            /\ \A i \in 1..Len(c.subjects) :
                   LET p == c.subjects[i].path
                       creators == {t \in 1..Len(c.teachers) : p \in c.teachers[t].files_created}
                       holders == {t \in 1..Len(c.teachers) : SubjectCopies(c, t, p) > 0}
                   IN  /\ Cardinality(holders) <= 1
                       /\ \A t \in holders : SubjectCopies(c, t, p) = 1
                       /\ creators # {} =>
                              holders = {CHOOSE t \in creators : \A u \in creators : t <= u}

\* C10 witness: a subject whose path the second teacher alone created, held by
\* the second teacher, while the first teacher created one of its articles
C10_Witness ==
    /\ ctx # None
    /\ Len(ctx[1].teachers) = 2
    /\ \E i \in 1..Len(ctx[1].subjects) :
           LET s == ctx[1].subjects[i]
           IN  /\ s.path \notin ctx[1].teachers[1].files_created
               /\ s.path \in ctx[1].teachers[2].files_created
               /\ SubjectCopies(ctx[1], 2, s.path) = 1
               /\ \E k \in 1..Len(s.articles) :
                      s.articles[k].path \in ctx[1].teachers[1].files_created

\* the teachers who hold a copy of the subject of path p
Holders(c, p) == {t \in 1..Len(c.teachers) : SubjectCopies(c, t, p) > 0}

\* the teachers whose created files hold the path p
Creators(c, p) == {t \in 1..Len(c.teachers) : p \in c.teachers[t].files_created}

\* the least number of a non-empty set of numbers
Least(S) == CHOOSE n \in S : \A m \in S : n <= m

\* C11, as stated: a subject whose own path no teacher created is held by the
\* first teacher, in teacher order, who created any of its articles, and by
\* no teacher when no teacher created any of them.
C11_FallbackFirstTeacherOfAnyArticle ==
    ctx # None =>
        LET c == ctx[1]
        IN  \A i \in 1..Len(c.subjects) :
                LET s == c.subjects[i]
                    cand == UNION {Creators(c, s.articles[k].path) : k \in 1..Len(s.articles)}
                IN  Creators(c, s.path) = {} =>
                        Holders(c, s.path) = IF cand = {} THEN {} ELSE {Least(cand)}

\* C11, amended: a subject whose own path no teacher created is held by the
\* first teacher, in teacher order, who created the first of its articles, in
\* the order of its articles list, that any teacher created, and by no
\* teacher when no teacher created any of them.
C11_FallbackFirstCreatedArticle ==
    ctx # None =>
        LET c == ctx[1]
        IN  \A i \in 1..Len(c.subjects) :
                LET s == c.subjects[i]
                    created == {k \in 1..Len(s.articles) : Creators(c, s.articles[k].path) # {}}
                IN  Creators(c, s.path) = {} =>
                        Holders(c, s.path) =
                            IF created = {} THEN {}
                            ELSE {Least(Creators(c, s.articles[Least(created)].path))}

\* C11 witness: a subject nobody created, held by the second teacher, who
\* created its first article, while the first teacher created a later one
C11_Witness ==
    /\ ctx # None
    /\ \E i \in 1..Len(ctx[1].subjects) :
           LET s == ctx[1].subjects[i]
           IN  /\ Creators(ctx[1], s.path) = {}
               /\ Len(s.articles) >= 2
               /\ Creators(ctx[1], s.articles[1].path) = {2}
               /\ 1 \in Creators(ctx[1], s.articles[2].path)
               /\ Holders(ctx[1], s.path) = {2}

\* the card, of the name-sorted cards, of the first teacher whose name,
\* username or email is the string s; None when there is no such teacher
FirstMatchingCard(cards, s) ==
    LET M == {n \in 1..Len(cards) :
                 s \in {cards[n].jmeno, cards[n].username, cards[n].email}}
    IN  IF M = {} THEN None ELSE Some(cards[Least(M)])

\* C12: in the returned Context the resolved owner of every subject and the
\* resolved modifier of every article is the card of the first teacher, in
\* name-sorted card order, whose name, username or email is the owner
\* (respectively last-modifier) string, and is unset when there is none.
C12_ResolveFirstMatchingCard ==
    ctx # None =>
        LET c == ctx[1]
        IN  /\ IsSortedBy(JmenoOf(c.teacher_cards))
            /\ \A i \in 1..Len(c.subjects) :
                   c.subjects[i].resolved_author =
                       FirstMatchingCard(c.teacher_cards, c.subjects[i].card.zodpovedna_osoba)
            /\ \A i \in 1..Len(c.articles) :
                   c.articles[i].modified_resolved =
                       FirstMatchingCard(c.teacher_cards, c.articles[i].modified_by)

\* C12 witness: with two teachers, an owner string that is the username of
\* the first and the name of the second resolves to the card of the first,
\* and an article whose modifier no teacher matches stays unresolved
C12_Witness ==
    /\ ctx # None
    /\ Len(ctx[1].teacher_cards) = 2
    /\ \E i \in 1..Len(ctx[1].subjects) :
           /\ ctx[1].subjects[i].card.zodpovedna_osoba = ctx[1].teacher_cards[1].username
           /\ ctx[1].subjects[i].card.zodpovedna_osoba = ctx[1].teacher_cards[2].jmeno
           /\ ctx[1].subjects[i].resolved_author = Some(ctx[1].teacher_cards[1])
    /\ \E i \in 1..Len(ctx[1].articles) :
           /\ ctx[1].articles[i].modified_by = "zed"
           /\ ctx[1].articles[i].modified_resolved = None

\* the subjects of c whose path_root the path p begins with
SubjectsOver(c, p) ==
    {i \in 1..Len(c.subjects) :
        LET r == c.subjects[i].path_root
        IN  Len(r) <= Len(p) /\ \A k \in 1..Len(r) : r[k] = p[k]}

\* the number of copies of the article of path p that subject i holds
ArticleCopies(c, i, p) == Count(c.subjects[i].articles, LAMBDA a : a.path = p)

\* C13: in the returned Context every subject's path_root is its path less
\* the last component; every article is in the articles of exactly one
\* subject, once: the first subject, in title-sorted order, whose path_root
\* its path begins with; its file name is not "subject.md", and its
\* subject_card is the card of that subject.
C13_ArticleInFirstPrefixSubject ==
    ctx # None =>
        LET c == ctx[1]
        IN  /\ IsSortedBy(CardNazevOf(c.subjects))
            /\ \A i \in 1..Len(c.subjects) :
                   LET s == c.subjects[i]
                   IN  s.path # <<>> /\ s.path = Append(s.path_root, s.path[Len(s.path)])
            /\ \A j \in 1..Len(c.articles) :
                   LET a == c.articles[j]
                       over == SubjectsOver(c, a.path)
                   IN  /\ over # {}
                       /\ \A i \in 1..Len(c.subjects) :
                              ArticleCopies(c, i, a.path) = IF i = Least(over) THEN 1 ELSE 0
                       /\ a.path[Len(a.path)] # "subject.md"
                       /\ a.subject_card = Some(c.subjects[Least(over)].card)

\* C13 witness: an article under the path_root of two subjects, held by the
\* first of them only
C13_Witness ==
    /\ ctx # None
    /\ \E j \in 1..Len(ctx[1].articles) :
           LET over == SubjectsOver(ctx[1], ctx[1].articles[j].path)
           IN  /\ Cardinality(over) = 2
               /\ \A i \in over :
                      ArticleCopies(ctx[1], i, ctx[1].articles[j].path) =
                          IF i = Least(over) THEN 1 ELSE 0

\* the error the header of chapter ch gives when it is read as a card of the
\* kind ("subject" or "article"), as an Option
HeaderError(ch, kind) ==
    LET hb == extract_header(ch.content)
    IN  IF ~hb.ok THEN Some(CatError("InvalidOrMissingHeader", None))
        ELSE IF kind = "subject" /\ hb.header \notin {<<h>> : h \in DOMAIN SubjectToml}
        THEN Some(CatError("InvalidHeaderFormat", Some(hb.header)))
        ELSE IF kind = "article" /\ hb.header \notin {<<h>> : h \in DOMAIN ArticleToml}
        THEN Some(CatError("InvalidHeaderFormat", Some(hb.header)))
        ELSE None

\* the error of the first chapter, of the chapters I of the book b, whose
\* header gives one
FirstHeaderError(b, I, kind) ==
    HeaderError(b[Least({i \in I : HeaderError(b[i], kind) # None})], kind)

\* the chapters of the book the subject phase and the article phase select
SubjectChapters == {i \in 1..Len(book) : book[i].path[Len(book[i].path)]
                                             \in {"subject.md", "mysubject.md"}}
ArticleChapters ==
    {i \in 1..Len(book) :
        /\ book[i].path[Len(book[i].path)] # "subject.md"
        /\ \E k \in 1..Len(subjects) :
               LET r == subjects[k].path_root
               IN  Len(r) <= Len(book[i].path) /\ \A n \in 1..Len(r) : r[n] = book[i].path[n]}

\* C14: every phase of with_book attempts all its items (each gives a
\* teacher, a card, an article, or an error); in every step that fails the
\* returned error is the first the phase collected in its processing order,
\* no Context is returned and no render is produced; a failed subject phase
\* leaves the other documents as they were, a failed article-header phase
\* issues no query, and nothing runs after a failure.
C14_PhaseFailsWithFirstError ==
    [][/\ pc # "failed"
       /\ pc = "teachers" /\ pc' = "subjects" => Len(teachers') = Len(teacher_cards')
       /\ pc = "subjects" /\ pc' = "article_headers" =>
            Len(subject_cards') = Cardinality(SubjectChapters)
       /\ pc = "article_headers" /\ pc' = "article_queries" =>
            Len(article_cards') = Cardinality(ArticleChapters)
       /\ pc = "article_queries" /\ pc' = "resolve" => Len(articles') = Len(article_cards)
       /\ pc' = "failed" =>
            /\ ctx' = None /\ renders' = <<>> /\ rres' = RNone
            /\ wres'.status = "Err"
            /\ pc = "teachers" /\ wres'.err[1].kind = "CommandFailed" =>
                 /\ Len(teachers') + Len(errors') = Len(teacher_cards')
                 /\ wres'.err = Some(errors'[1])
                 /\ \A n \in 1..Len(errors') : errors'[n].kind = "CommandFailed"
                 /\ book' = book
            /\ pc = "subjects" =>
                 /\ Len(subject_cards') + Len(errors') = Cardinality(SubjectChapters)
                 /\ wres'.err = Some(errors'[1])
                 /\ wres'.err = FirstHeaderError(book, SubjectChapters, "subject")
                 /\ \A i \in 1..Len(book) : i \notin SubjectChapters => book'[i] = book[i]
                 /\ queries' = queries
            /\ pc = "article_headers" =>
                 /\ Len(article_cards') + Len(errors') = Cardinality(ArticleChapters)
                 /\ wres'.err = Some(errors'[1])
                 /\ wres'.err = FirstHeaderError(book, ArticleChapters, "article")
                 /\ queries' = queries
            /\ pc = "article_queries" =>
                 /\ Len(articles') + Len(errors') = Len(article_cards)
                 /\ wres'.err = Some(errors'[1])
                 /\ book' = book
      ]_vars

-----------------------------------------------------------------------------
(* Properties of read_teacher_cards, checked under SpecCards *)

\* the regular files with a name ending in ".toml" directly in the folder
TopLevelTomlFiles ==
    SelectSeq(folder.entries,
              LAMBDA e : Len(e.path) = 1 /\ e.is_file /\ e.path[1] \in TomlSuffixed)

\* C15: on a teachers directory read_teacher_cards returns one card for each
\* regular file with the .toml extension directly inside it and for no
\* other file; files inside a subdirectory contribute no card and cannot
\* cause InvalidTeacherCard.
C15_OnlyTopLevelCards ==
    (pc = "cards_done" /\ folder.kind = "dir") =>
        LET top == TopLevelTomlFiles
        IN  IF \A n \in 1..Len(top) : top[n].text \in DOMAIN TeacherToml
            THEN /\ cres.status = "Ok"
                 /\ cres.cards = [n \in 1..Len(top) |-> TeacherToml[top[n].text]]
            ELSE /\ cres.status = "Err"
                 /\ cres.err[1].kind = "InvalidTeacherCard"
                 /\ \E n \in 1..Len(top) :
                        /\ top[n].text \notin DOMAIN TeacherToml
                        /\ cres.err[1].at = Some(top[n].path[1])

-----------------------------------------------------------------------------
(* Further properties of with_book, checked under Spec *)

\* C16, as stated: the author of every article is the name of the first
\* teacher, in name-sorted order, whose created files hold its path, and the
\* literal "Unknown" when no teacher's created files hold it.
C16_AuthorOrUnknown ==
    ctx # None =>
        LET c == ctx[1]
        IN  \A j \in 1..Len(c.articles) :
                LET cr == Creators(c, c.articles[j].path)
                IN  c.articles[j].author =
                        IF cr = {} THEN "Unknown" ELSE c.teachers[Least(cr)].card.jmeno

\* C16, amended: the author of every article is the name of the first
\* teacher, in name-sorted order, whose created files hold its path, and the
\* placeholder of cat_context.rs:322 (the Czech word for unknown, written
\* here without its diacritics) when no teacher's created files hold it.
C16_AuthorOrPlaceholder ==
    ctx # None =>
        LET c == ctx[1]
        IN  /\ IsSortedBy([t \in 1..Len(c.teachers) |-> c.teachers[t].card.jmeno])
            /\ \A j \in 1..Len(c.articles) :
                   LET cr == Creators(c, c.articles[j].path)
                   IN  c.articles[j].author =
                           IF cr = {} THEN "Neznamy" ELSE c.teachers[Least(cr)].card.jmeno

\* C16 witness: one article that both teachers created, with the name of the
\* first as its author, and one that no teacher created, with the placeholder
C16_Witness ==
    /\ ctx # None
    /\ \E j \in 1..Len(ctx[1].articles) :
           /\ Creators(ctx[1], ctx[1].articles[j].path) = {1, 2}
           /\ ctx[1].articles[j].author = ctx[1].teachers[1].card.jmeno
    /\ \E j \in 1..Len(ctx[1].articles) :
           /\ Creators(ctx[1], ctx[1].articles[j].path) = {}
           /\ ctx[1].articles[j].author = "Neznamy"

\* the paths of the documents that gave a subject card, and an article card
SubjectCardPaths(c) == {c.subject_cards[i]._resolved_path[1] : i \in 1..Len(c.subject_cards)}
ArticleCardPaths(c) == {c.article_cards[i]._resolved_path[1] : i \in 1..Len(c.article_cards)}

\* C17: when with_book has returned, no document has given both a subject
\* card and an article card, and every document that gave a card holds the
\* body of its text as handed in, its header split off once.
C17_SubjectNeverAlsoArticle ==
    pc = "create_renders" =>
        LET c == ctx[1]
        IN  /\ SubjectCardPaths(c) \cap ArticleCardPaths(c) = {}
            /\ \A i \in 1..Len(book0) :
                   book0[i].path \in SubjectCardPaths(c) \cup ArticleCardPaths(c) =>
                       book[i].content = extract_header(book0[i].content).body

\* x is the entry of the sequence top that has the path of x
IsEntryOf(x, top) == \E j \in 1..Len(top) : top[j].path = x.path /\ top[j] = x

\* C18: in the returned Context every copy of an article in a subject's or a
\* teacher's articles, and every copy of a subject in a teacher's subjects,
\* is equal, field for field, to the entry of the same path in the Context's
\* articles, respectively subjects.
C18_CopiesEqualTopLevel ==
    ctx # None =>
        LET c == ctx[1]
        IN  /\ \A i \in 1..Len(c.subjects) : \A k \in 1..Len(c.subjects[i].articles) :
                   IsEntryOf(c.subjects[i].articles[k], c.articles)
            /\ \A t \in 1..Len(c.teachers) :
                   /\ \A k \in 1..Len(c.teachers[t].articles) :
                          IsEntryOf(c.teachers[t].articles[k], c.articles)
                   /\ \A k \in 1..Len(c.teachers[t].subjects) :
                          IsEntryOf(c.teachers[t].subjects[k], c.subjects)

\* C19: in the returned Context the resolved author of an article is the
\* card of the teacher its author was taken from, the first teacher whose
\* created files hold its path, and is unset when no teacher's created files
\* hold it.
C19_ResolvedAuthorIsCreator ==
    ctx # None =>
        LET c == ctx[1]
        IN  \A j \in 1..Len(c.articles) :
                LET cr == Creators(c, c.articles[j].path)
                IN  c.articles[j].resolved_author =
                        IF cr = {} THEN None ELSE Some(c.teachers[Least(cr)].card)

=============================================================================
